---- MODULE Spec2Model ----
(***************************************************************************)
(* The pod lifecycle manager of telekinesis_compute/manager.py:            *)
(* AppManager (ready pools, lease table, provisioning, reconciliation      *)
(* loop) and PodWrapper (autostop timer, teardown).                        *)
(*                                                                         *)
(* One asyncio event loop runs every coroutine, so the code between two    *)
(* awaits that really suspend is one atomic step.  An action below is one  *)
(* such stretch of code.  Awaiting a coroutine that holds no suspending    *)
(* await (AppManager.stop, and PodWrapper.stop(False)) does not yield.     *)
(*                                                                         *)
(* Time is kept relative to time.time(): a deadline or a wake-up time is   *)
(* stored as the seconds left until it, and Tick, one second passing,      *)
(* lowers every one of them.  A value is not lowered past the point from   *)
(* which the code no longer tells it apart (a sleep that is over, a        *)
(* deadline that has passed).                                              *)
(***************************************************************************)
EXTENDS Integers, Sequences, FiniteSets, TLC

\* ---------------------------------------------------------------- bounds
MaxPods == 2      \* containers ever started in one run
MaxCalls == 2     \* get_pod / provision coroutines in flight at once
MaxTimed == 1     \* pods leased with an autostop_timeout

\* ------------------------------------------------------ program constants
None == -1              \* autostop_timeout = None
MinRearm == 2           \* max(2, ...) of autostop
CpuThreshold == 1       \* cpu_utilization < 1
StopTimeoutSecs == 5    \* pod.stop()._timeout(5)
DebounceSecs == 1       \* asyncio.sleep(1) of delayed_provisioning

Pods == 1..MaxPods
Calls == 1..MaxCalls
OneCall == {c \in Calls : c = 1}   \* the callers that wait for each other
Accounts == {"a1", "a2"}
Timeouts == {None, 1, 3}
CpuReadings == {0, 1}

\* A dependency is a string d (pip = imp = d) or a pair (pip, imp).
Numpy == [pip |-> "numpy", imp |-> "numpy"]
Scipy == [pip |-> "scipy", imp |-> "scipy"]
Google == [pip |-> "google", imp |-> "google"]
Auth == [pip |-> "auth", imp |-> "auth"]
GoogleAuth == [pip |-> "google-auth", imp |-> "google.auth"]
Fingerprints ==
    { [base |-> "python", deps |-> <<Numpy, Scipy>>],
      [base |-> "python", deps |-> <<Scipy, Numpy>>],
      [base |-> "python", deps |-> <<Google, Auth>>],
      [base |-> "python", deps |-> <<GoogleAuth>>] }

\* sep.join(parts), for a list of one part or more
RECURSIVE Join(_, _)
Join(sep, parts) ==
    IF Len(parts) = 1 THEN parts[1]
    ELSE parts[1] \o sep \o Join(sep, Tail(parts))

\* [d if isinstance(d, str) else d[0] for d in pkg_dependencies]
PipNames(deps) == [i \in 1..Len(deps) |-> deps[i].pip]

\* '-'.join(['tk', base, *pip names]): the key of self.ready and the image tag
Tag(fp) == Join("-", <<"tk", fp.base>> \o PipNames(fp.deps))
Tags == {Tag(fp) : fp \in Fingerprints}

Max(a, b) == IF a >= b THEN a ELSE b
RemoveAt(s, i) == SubSeq(s, 1, i - 1) \o SubSeq(s, i + 1, Len(s))
Elems(s) == {s[i] : i \in 1..Len(s)}
Without(s, x) == SelectSeq(s, LAMBDA y : y # x)

VARIABLES
    nextPod,          \* containers started so far; the next PodWrapper is nextPod + 1
    alive,            \* containers `docker container ls` would list
    image,            \* tags client.images.list(name=tag) finds
    ready,            \* AppManager.ready: tag -> list of PodWrapper
    running,          \* AppManager.running: account -> pods, in insertion order
    runningKeys,      \* the keys of AppManager.running, in insertion order
    calls,            \* the get_pod / provision coroutines
    stop_callback,    \* PodWrapper.stop_callback
    autostop_timeout, \* PodWrapper.autostop_timeout
    autostop_time,    \* PodWrapper.autostop_time: set (not 0), seconds left to it
    autostop_task,    \* PodWrapper.autostop_task is not None
    timers,           \* the unfinished autostop tasks of each pod, seconds left
    filesync,         \* PodWrapper.filesync: "none", "running", "cancelled"
    delayed,          \* tasks['delayed_provisioning'], in insertion order
    loop,             \* tasks['check_running_loop']: "sleeping" or "dead"
    cbRuns,           \* tasks['stop_callback']: callback(pod_id) tasks, per pod
    fsCancels,        \* filesync.task.cancel() calls, per pod
    remoteStops,      \* pod.stop() calls issued, per pod
    raised            \* the exception the last step raised, "Exception:where"

vars == <<nextPod, alive, image, ready, running, runningKeys, calls,
          stop_callback, autostop_timeout, autostop_time, autostop_task, timers,
          filesync, delayed, loop, cbRuns, fsCancels, remoteStops, raised>>

NoCallback == [set |-> FALSE, account |-> "a1", callback |-> FALSE]
IdleCall == [pc |-> "idle", kind |-> "get_pod", tag |-> "", number |-> 0,
             pod |-> 0]

\* ------------------------------------------------ variants of the code
\* Each differs from the code in one expression; the property named with it
\* holds of the code and not of the variant.
\* pop() that leaves the element in the list (OneHolder)
ReadyKeepsPopped(queue) == queue
\* reset_timeout without the `autostop_task is None` test (SingleFlight)
SpawnsAlways(p) == TRUE
\* the re-arm without max(2, ...) (ExtensionRule)
ExtendUnclamped(p) == autostop_timeout[p]
\* `cpu_utilization < 0` (IdleStops)
CpuBelowZero(cpu) == cpu < 0
\* stop() without the `if stop_pod` test (BestEffortStop)
IssuesAlways(stop_pod) == TRUE
\* pop(0) in place of pop() (OwnPodPerCaller)
PoppedFirst(queue) == queue[1]

Init ==
    /\ nextPod = 0
    /\ alive = {}
    /\ image = {}
    /\ ready = [t \in Tags |-> <<>>]
    /\ running = [a \in Accounts |-> <<>>]
    /\ runningKeys = <<>>
    /\ calls = [c \in Calls |-> IdleCall]
    /\ stop_callback = [p \in Pods |-> NoCallback]
    /\ autostop_timeout = [p \in Pods |-> None]
    /\ autostop_time = [p \in Pods |-> [set |-> FALSE, left |-> 0]]
    /\ autostop_task = [p \in Pods |-> FALSE]
    /\ timers = [p \in Pods |-> <<>>]
    /\ filesync = [p \in Pods |-> "none"]
    /\ delayed = <<>>
    /\ loop = "sleeping"
    /\ cbRuns = [p \in Pods |-> 0]
    /\ fsCancels = [p \in Pods |-> 0]
    /\ remoteStops = [p \in Pods |-> 0]
    /\ raised = "none"

\* ------------------------------------------------------------ the clock
Lower(left, floor) == Max(left - 1, floor)

\* One second passes.
Tick ==
    /\ autostop_time' =
         [p \in Pods |->
            IF autostop_time[p].set
            THEN [autostop_time[p] EXCEPT !.left = Lower(@, -1)]
            ELSE autostop_time[p]]
    /\ timers' =
         [p \in Pods |->
            [i \in 1..Len(timers[p]) |-> [timers[p][i] EXCEPT !.left = Lower(@, 0)]]]
    /\ delayed' = [i \in 1..Len(delayed) |-> [delayed[i] EXCEPT !.left = Lower(@, 0)]]
    /\ raised' = "none"
    /\ UNCHANGED <<nextPod, alive, image, ready, running, runningKeys, calls,
                   stop_callback, autostop_timeout, autostop_task, filesync, loop,
                   cbRuns, fsCancels, remoteStops>>

\* A container exits or is removed outside the manager.
ContainerDie(p) ==
    /\ p \in alive
    /\ alive' = alive \ {p}
    /\ raised' = "none"
    /\ UNCHANGED <<nextPod, image, ready, running, runningKeys, calls,
                   stop_callback, autostop_timeout, autostop_time, autostop_task,
                   timers, filesync, delayed, loop, cbRuns, fsCancels,
                   remoteStops>>

\* ------------------------------------------------- AppManager.stop (194-199)
\* self.running.get(account_id, {}).pop(pod_id) finds the pod (else: KeyError).
StopFound(a, p) == p \in Elems(running[a])

\* `if p and callback`: the callback task is created.
SchedulesCallback(callback) == callback

\* The call on a leased pod: the lease is removed, the callback task created
\* and stored in tasks['stop_callback'], which nothing ever removes it from.
AppManager_stop(a, p, callback) ==
    /\ running' = [running EXCEPT ![a] = Without(@, p)]
    /\ cbRuns' = IF SchedulesCallback(callback)
                 THEN [cbRuns EXCEPT ![p] = @ + 1]
                 ELSE cbRuns

\* An outside caller invokes AppManager.stop(account_id, pod_id, callback).
ManagerStopCall(a, p, callback) ==
    /\ IF StopFound(a, p)
       THEN AppManager_stop(a, p, callback) /\ raised' = "none"
       ELSE /\ raised' = "KeyError:AppManager.stop"
            /\ UNCHANGED <<running, cbRuns>>
    /\ UNCHANGED <<nextPod, alive, image, ready, runningKeys, calls,
                   stop_callback, autostop_timeout, autostop_time, autostop_task,
                   timers, filesync, delayed, loop, fsCancels, remoteStops>>

\* ------------------------------------------------- PodWrapper.stop (262-272)
\* stop_callback is partial(AppManager.stop, account, id, callback): it raises
\* KeyError when the lease is gone, before anything else of stop() has run.
StopRaises(p) ==
    stop_callback[p].set /\ ~StopFound(stop_callback[p].account, p)

\* `if self.filesync and self.filesync.task`
CancelsFilesync(p) == filesync[p] # "none"

\* `if stop_pod`: the remote pod.stop() is issued.
IssuesRemoteStop(stop_pod) == stop_pod

\* stop() up to its only suspension, the remote stop; here StopRaises(p) is false.
PodWrapper_stop(p, stop_pod) ==
    /\ IF stop_callback[p].set
       THEN AppManager_stop(stop_callback[p].account, p, stop_callback[p].callback)
       ELSE UNCHANGED <<running, cbRuns>>
    /\ IF CancelsFilesync(p)
       THEN /\ filesync' = [filesync EXCEPT ![p] = "cancelled"]
            /\ fsCancels' = [fsCancels EXCEPT ![p] = @ + 1]
       ELSE UNCHANGED <<filesync, fsCancels>>
    /\ remoteStops' = IF IssuesRemoteStop(stop_pod)
                      THEN [remoteStops EXCEPT ![p] = @ + 1]
                      ELSE remoteStops

\* The pod calls the stop callback update_params handed it, partial(self.stop, False).
PodStopCall(p) ==
    /\ stop_callback[p].set
    /\ IF StopRaises(p)
       THEN /\ raised' = "KeyError:PodWrapper.stop"
            /\ UNCHANGED <<running, cbRuns, filesync, fsCancels, remoteStops>>
       ELSE PodWrapper_stop(p, FALSE) /\ raised' = "none"
    /\ UNCHANGED <<nextPod, alive, image, ready, runningKeys, calls,
                   stop_callback, autostop_timeout, autostop_time, autostop_task,
                   timers, delayed, loop>>

\* ------------------------------------------- PodWrapper.reset_timeout (233-238)
\* self.autostop_time = time.time() + self.autostop_timeout
DeadlineAfterReset(p) == [set |-> TRUE, left |-> autostop_timeout[p]]

\* `if self.autostop_task is None`
SpawnsTask(p) == ~autostop_task[p]

\* asyncio.create_task(self.autostop(delay)), at its asyncio.sleep(delay)
SleepingTask(delay) == [st |-> "sleeping", left |-> delay]

reset_timeout(p) ==
    IF autostop_timeout[p] # None
    THEN /\ autostop_time' = [autostop_time EXCEPT ![p] = DeadlineAfterReset(p)]
         /\ IF SpawnsTask(p)
            THEN /\ autostop_task' = [autostop_task EXCEPT ![p] = TRUE]
                 /\ timers' = [timers EXCEPT
                                 ![p] = Append(@, SleepingTask(autostop_timeout[p]))]
            ELSE UNCHANGED <<autostop_task, timers>>
    ELSE UNCHANGED <<autostop_time, autostop_task, timers>>

\* The pod calls the keep-alive callback update_params handed it.
KeepAlive(p) ==
    /\ stop_callback[p].set
    /\ reset_timeout(p)
    /\ raised' = "none"
    /\ UNCHANGED <<nextPod, alive, image, ready, running, runningKeys, calls,
                   stop_callback, autostop_timeout, filesync, delayed, loop,
                   cbRuns, fsCancels, remoteStops>>

\* ------------------------------------------------ PodWrapper.autostop (240-254)
\* `if self.autostop_time and self.autostop_time < time.time()`
DeadlinePassed(p) == autostop_time[p].set /\ autostop_time[p].left < 0

\* max(2, self.autostop_time - time.time())
RearmDelay(p) == Max(MinRearm, autostop_time[p].left)

\* max(2, self.autostop_timeout)
ExtendDelay(p) == Max(MinRearm, autostop_timeout[p])

\* `if cpu_utilization < 1`
CpuIdle(cpu) == cpu < CpuThreshold

\* The task ends as it creates its successor, which autostop_task now names.
Respawn(p, i, delay) ==
    /\ timers' = [timers EXCEPT ![p] = Append(RemoveAt(@, i), SleepingTask(delay))]
    /\ autostop_task' = [autostop_task EXCEPT ![p] = TRUE]

\* asyncio.sleep(delay) is over: the deadline check, and the start of the
\* `docker stats` subprocess or the re-arm.
TimerWake(p, i) ==
    /\ i \in 1..Len(timers[p])
    /\ timers[p][i].st = "sleeping"
    /\ timers[p][i].left = 0
    /\ IF DeadlinePassed(p)
       THEN /\ timers' = [timers EXCEPT ![p][i].st = "checking"]
            /\ UNCHANGED autostop_task
       ELSE Respawn(p, i, RearmDelay(p))
    /\ raised' = "none"
    /\ UNCHANGED <<nextPod, alive, image, ready, running, runningKeys, calls,
                   stop_callback, autostop_timeout, autostop_time, filesync,
                   delayed, loop, cbRuns, fsCancels, remoteStops>>

\* `docker stats` of a listed container answers with a percentage.
CpuResult(p, i, cpu) ==
    /\ i \in 1..Len(timers[p])
    /\ timers[p][i].st = "checking"
    /\ p \in alive
    /\ IF CpuIdle(cpu)
       THEN IF StopRaises(p)
            THEN \* await self.stop() raises out of the task
                 /\ timers' = [timers EXCEPT ![p] = RemoveAt(@, i)]
                 /\ raised' = "KeyError:autostop"
                 /\ UNCHANGED <<running, cbRuns, filesync, fsCancels, remoteStops,
                                autostop_task>>
            ELSE /\ PodWrapper_stop(p, TRUE)
                 /\ timers' = [timers EXCEPT ![p][i] =
                                 [st |-> "stopping", left |-> StopTimeoutSecs]]
                 /\ raised' = "none"
                 /\ UNCHANGED autostop_task
       ELSE /\ Respawn(p, i, ExtendDelay(p))
            /\ raised' = "none"
            /\ UNCHANGED <<running, cbRuns, filesync, fsCancels, remoteStops>>
    /\ UNCHANGED <<nextPod, alive, image, ready, runningKeys, calls,
                   stop_callback, autostop_timeout, autostop_time, delayed, loop>>

\* `docker stats` of a container that is gone prints nothing: float('') raises.
CpuFail(p, i) ==
    /\ i \in 1..Len(timers[p])
    /\ timers[p][i].st = "checking"
    /\ p \notin alive
    /\ timers' = [timers EXCEPT ![p] = RemoveAt(@, i)]
    /\ raised' = "ValueError:autostop"
    /\ UNCHANGED <<nextPod, alive, image, ready, running, runningKeys, calls,
                   stop_callback, autostop_timeout, autostop_time, autostop_task,
                   filesync, delayed, loop, cbRuns, fsCancels, remoteStops>>

\* The pod answers the remote stop: Instance.stop sets the lock, main() returns
\* and the container (run with --rm) exits.
StopAck(p, i) ==
    /\ i \in 1..Len(timers[p])
    /\ timers[p][i].st = "stopping"
    /\ p \in alive
    /\ alive' = alive \ {p}
    /\ timers' = [timers EXCEPT ![p] = RemoveAt(@, i)]
    /\ raised' = "none"
    /\ UNCHANGED <<nextPod, image, ready, running, runningKeys, calls,
                   stop_callback, autostop_timeout, autostop_time, autostop_task,
                   filesync, delayed, loop, cbRuns, fsCancels, remoteStops>>

\* No answer within 5 seconds: asyncio.TimeoutError is swallowed.
StopTimeout(p, i) ==
    /\ i \in 1..Len(timers[p])
    /\ timers[p][i].st = "stopping"
    /\ timers[p][i].left = 0
    /\ timers' = [timers EXCEPT ![p] = RemoveAt(@, i)]
    /\ raised' = "none"
    /\ UNCHANGED <<nextPod, alive, image, ready, running, runningKeys, calls,
                   stop_callback, autostop_timeout, autostop_time, autostop_task,
                   filesync, delayed, loop, cbRuns, fsCancels, remoteStops>>

\* ------------------------------------ AppManager.get_pod / provision (148-192)
\* `if upgrade or not self.client.images.list(name=tag)`
NeedsBuild(tag, upgrade) == upgrade \/ tag \notin image

\* self.ready[tag].pop(): the last element is returned ...
Popped(queue) == queue[Len(queue)]
\* ... and leaves the list.
ReadyAfterPop(queue) == SubSeq(queue, 1, Len(queue) - 1)

\* {**self.running.get(account_id, {}), pod_wrapper.id: pod_wrapper}
LeaseAdded(pods, p) == IF p \in Elems(pods) THEN pods ELSE Append(pods, p)

\* Lines 156-161 up to the remote call of update_params, on the ready list
\* `queue` of `tag` as it stands when the code reaches line 156.
Lease(c, a, tag, queue, timeout, callback) ==
    LET p == Popped(queue) IN
    /\ ready' = [ready EXCEPT ![tag] = ReadyAfterPop(queue)]
    /\ running' = [running EXCEPT ![a] = LeaseAdded(@, p)]
    /\ runningKeys' = IF a \in Elems(runningKeys) THEN runningKeys
                      ELSE Append(runningKeys, a)
    /\ stop_callback' = [stop_callback EXCEPT
                           ![p] = [set |-> TRUE, account |-> a, callback |-> callback]]
    /\ autostop_timeout' = [autostop_timeout EXCEPT ![p] = timeout]
    /\ calls' = [calls EXCEPT ![c] = [pc |-> "update", kind |-> "get_pod",
                                      tag |-> tag, number |-> 1, pod |-> p]]

\* The first stretch of provision(): the coroutine waits for the build, or
\* goes straight to the container starts.
ProvisionBegins(c, kind, tag, number, upgrade) ==
    calls' = [calls EXCEPT ![c] =
                [pc |-> IF NeedsBuild(tag, upgrade) THEN "build" ELSE "start",
                 kind |-> kind, tag |-> tag, number |-> number, pod |-> 0]]

\* get_pod with a ready pod: no suspension before the lease.  A parameter of
\* get_pod is bound, by \E, in the step that first reads it: account_id at
\* line 158, autostop_timeout and stop_callback at line 161, bind_data and
\* provision after the remote call of update_params.
get_pod_ready(c, a, fp, timeout, callback) ==
    /\ calls[c].pc = "idle"
    /\ ready[Tag(fp)] # <<>>
    /\ Lease(c, a, Tag(fp), ready[Tag(fp)], timeout, callback)
    /\ raised' = "none"
    /\ UNCHANGED <<nextPod, alive, image, autostop_time, autostop_task, timers,
                   filesync, delayed, loop, cbRuns, fsCancels, remoteStops>>

\* get_pod with no ready pod: `await self.provision(1, ...)`.
get_pod_provision(c, fp, upgrade) ==
    /\ calls[c].pc = "idle"
    /\ ready[Tag(fp)] = <<>>
    /\ ProvisionBegins(c, "get_pod", Tag(fp), 1, upgrade)
    /\ raised' = "none"
    /\ UNCHANGED <<nextPod, alive, image, ready, running, runningKeys,
                   stop_callback, autostop_timeout, autostop_time, autostop_task,
                   timers, filesync, delayed, loop, cbRuns, fsCancels,
                   remoteStops>>

\* A caller invokes AppManager.provision(number, ...) itself.
provision(c, fp, number, upgrade) ==
    /\ calls[c].pc = "idle"
    /\ ProvisionBegins(c, "provision", Tag(fp), number, upgrade)
    /\ raised' = "none"
    /\ UNCHANGED <<nextPod, alive, image, ready, running, runningKeys,
                   stop_callback, autostop_timeout, autostop_time, autostop_task,
                   timers, filesync, delayed, loop, cbRuns, fsCancels,
                   remoteStops>>

\* build_image: `docker build` ends.  Its exit status is never read, so a
\* failed build only leaves the image missing.
build_image(c, ok) ==
    /\ calls[c].pc = "build"
    /\ image' = IF ok THEN image \cup {calls[c].tag} ELSE image
    /\ calls' = [calls EXCEPT ![c].pc = "start"]
    /\ raised' = "none"
    /\ UNCHANGED <<nextPod, alive, ready, running, runningKeys, stop_callback,
                   autostop_timeout, autostop_time, autostop_task, timers,
                   filesync, delayed, loop, cbRuns, fsCancels, remoteStops>>

\* The pods gather() returns: one PodWrapper per start_container.
Started(number) == [i \in 1..number |-> nextPod + i]

\* asyncio.gather of the start_container calls is done (every pod has called
\* back), the ready list is extended, and for get_pod the lease follows with no
\* suspension in between.  `docker run` of a missing image starts nothing, and
\* then awaiter() never returns.
start_container(c, a, timeout, callback) ==
    /\ calls[c].pc = "start"
    /\ calls[c].tag \in image
    /\ nextPod + calls[c].number <= MaxPods
    /\ nextPod' = nextPod + calls[c].number
    /\ alive' = alive \cup Elems(Started(calls[c].number))
    /\ LET tag == calls[c].tag
           extended == ready[tag] \o Started(calls[c].number)
       IN IF calls[c].kind = "get_pod"
          THEN Lease(c, a, tag, extended, timeout, callback)
          ELSE /\ ready' = [ready EXCEPT ![tag] = extended]
               /\ calls' = [calls EXCEPT ![c] = IdleCall]
               /\ UNCHANGED <<running, runningKeys, stop_callback, autostop_timeout>>
    /\ raised' = "none"
    /\ UNCHANGED <<image, autostop_time, autostop_task, timers, filesync, delayed,
                   loop, cbRuns, fsCancels, remoteStops>>

\* The remote call of update_params has returned: lines 162-179.  bind_data
\* and provision are first read here.
get_pod_return(c, bind_data, prov) ==
    /\ calls[c].pc = "update"
    /\ reset_timeout(calls[c].pod)
    /\ filesync' = IF bind_data THEN [filesync EXCEPT ![calls[c].pod] = "running"]
                   ELSE filesync
    /\ delayed' = IF prov
                  THEN Append(delayed, [st |-> "sleeping", left |-> DebounceSecs])
                  ELSE delayed
    /\ calls' = [calls EXCEPT ![c] = IdleCall]
    /\ raised' = "none"
    /\ UNCHANGED <<nextPod, alive, image, ready, running, runningKeys,
                   stop_callback, autostop_timeout, loop, cbRuns, fsCancels,
                   remoteStops>>

\* delayed_provisioning after its sleep: self.provision is called with eight
\* arguments for seven parameters, so the call raises TypeError and the
\* pop(t) after it never runs: the entry stays.
delayed_provisioning(k) ==
    /\ k \in 1..Len(delayed)
    /\ delayed[k].st = "sleeping"
    /\ delayed[k].left = 0
    /\ delayed' = [delayed EXCEPT ![k].st = "failed"]
    /\ raised' = "TypeError:delayed_provisioning"
    /\ UNCHANGED <<nextPod, alive, image, ready, running, runningKeys, calls,
                   stop_callback, autostop_timeout, autostop_time, autostop_task,
                   timers, filesync, loop, cbRuns, fsCancels, remoteStops>>

\* ------------------------------- check_running / loop_check_running (201-219)
\* The leased pods in the order the two nested loops visit them.
RECURSIVE Visited(_)
Visited(keys) ==
    IF keys = <<>> THEN <<>> ELSE running[Head(keys)] \o Visited(Tail(keys))

\* `pod_wrapper.container_id not in running_containers`
Gone(listed, p) == p \notin listed

\* The first visited pod whose container is not listed, or 0.
FirstGone(listed) ==
    LET v == Visited(runningKeys)
        idx == {i \in 1..Len(v) : Gone(listed, v[i])}
    IN IF idx = {} THEN 0
       ELSE v[CHOOSE i \in idx : \A j \in idx : i <= j]

\* One tick of loop_check_running: asyncio.sleep(15) is over (the sleep is not
\* counted in seconds: a tick may come at any moment), `docker container ls`
\* has answered with the containers of the moment its answer is read, and the
\* two loops run with no suspension.  stop(False) of the first pod found gone
\* pops it from the dict under iteration, and the next step of that iteration
\* raises RuntimeError, which ends the loop task.  A listing that failed is
\* empty (`docker` wrote to stderr only).
check_running(ok) ==
    /\ loop = "sleeping"
    /\ LET listed == IF ok THEN alive ELSE {}
           p == FirstGone(listed)
       IN IF p = 0
          THEN /\ loop' = "sleeping"
               /\ raised' = "none"
               /\ UNCHANGED <<running, cbRuns, filesync, fsCancels, remoteStops>>
          ELSE /\ PodWrapper_stop(p, FALSE)
               /\ loop' = "dead"
               /\ raised' = "RuntimeError:check_running"
    /\ UNCHANGED <<nextPod, alive, image, ready, runningKeys, calls,
                   stop_callback, autostop_timeout, autostop_time, autostop_task,
                   timers, delayed>>

\* ------------------------------------------------------------ the system
\* The coroutines are anonymous: a new one takes the first free place.
Free(c) == calls[c].pc = "idle" /\ \A d \in 1..(c - 1) : calls[d].pc # "idle"

\* The autostop_timeout values a get_pod call is given, out of `choices`.
TimeoutChoices(choices) ==
    IF Cardinality({p \in Pods : autostop_timeout[p] # None}) < MaxTimed
    THEN choices ELSE {None}

NumpyScipy == [base |-> "python", deps |-> <<Numpy, Scipy>>]
Leased(p) == \E a \in Accounts : StopFound(a, p)
ReadyPods == UNION {Elems(ready[t]) : t \in Tags}

\* Every operation of the manager and of its pods, on one fingerprint; each
\* get_pod call supplies a stop callback and bind_data, and no image is rebuilt.
Next ==
    \/ Tick
    \/ \E p \in Pods : ContainerDie(p)
    \/ \E a \in Accounts, p \in Pods : ManagerStopCall(a, p, TRUE)
    \/ \E p \in Pods : PodStopCall(p)
    \/ \E p \in Pods : KeepAlive(p)
    \/ \E p \in Pods : \E i \in 1..Len(timers[p]) : TimerWake(p, i)
    \/ \E p \in Pods, cpu \in CpuReadings : \E i \in 1..Len(timers[p]) :
          CpuResult(p, i, cpu)
    \/ \E p \in Pods : \E i \in 1..Len(timers[p]) : CpuFail(p, i)
    \/ \E p \in Pods : \E i \in 1..Len(timers[p]) : StopAck(p, i)
    \/ \E p \in Pods : \E i \in 1..Len(timers[p]) : StopTimeout(p, i)
    \/ \E c \in OneCall, a \in Accounts, t \in TimeoutChoices({None, 1}) :
          Free(c) /\ get_pod_ready(c, a, NumpyScipy, t, TRUE)
    \/ \E c \in OneCall : Free(c) /\ get_pod_provision(c, NumpyScipy, FALSE)
    \/ \E c \in OneCall, n \in 1..MaxPods : Free(c) /\ provision(c, NumpyScipy, n, FALSE)
    \/ \E c \in OneCall : build_image(c, TRUE)
    \/ \E c \in OneCall, a \in Accounts, t \in TimeoutChoices({None, 1}) :
          start_container(c, a, t, TRUE)
    \/ \E c \in OneCall : get_pod_return(c, TRUE, FALSE)
    \/ \E ok \in BOOLEAN : check_running(ok)

Spec == Init /\ [][Next]_vars

\* One account's pods from lease to teardown: get_pod on an empty pool,
\* keep-alive, the autostop timer, teardown by the pod's own call, by
\* autoscale-down and by reconciliation.
NextPod ==
    \/ Tick
    \/ \E p \in Pods : ContainerDie(p)
    \/ \E p \in Pods : PodStopCall(p)
    \/ \E p \in Pods : KeepAlive(p)
    \/ \E p \in Pods : \E i \in 1..Len(timers[p]) : TimerWake(p, i)
    \/ \E p \in Pods, cpu \in CpuReadings : \E i \in 1..Len(timers[p]) :
          CpuResult(p, i, cpu)
    \/ \E p \in Pods : \E i \in 1..Len(timers[p]) : CpuFail(p, i)
    \/ \E p \in Pods : \E i \in 1..Len(timers[p]) : StopAck(p, i)
    \/ \E p \in Pods : \E i \in 1..Len(timers[p]) : StopTimeout(p, i)
    \/ \E c \in OneCall : Free(c) /\ get_pod_provision(c, NumpyScipy, FALSE)
    \/ \E c \in OneCall : build_image(c, TRUE)
    \/ \E c \in OneCall, t \in TimeoutChoices(Timeouts), cb \in BOOLEAN :
          start_container(c, "a1", t, cb)
    \/ \E c \in OneCall, bind \in BOOLEAN : get_pod_return(c, bind, FALSE)
    \/ \E ok \in BOOLEAN : check_running(ok)

SpecPod == Init /\ [][NextPod]_vars

\* Scenario B: pods are leased and left alone.  No keep-alive, no other
\* teardown, every container stays up and idle.
NextIdle ==
    \/ Tick
    \/ \E p \in Pods : \E i \in 1..Len(timers[p]) : TimerWake(p, i)
    \/ \E p \in Pods : \E i \in 1..Len(timers[p]) : CpuResult(p, i, 0)
    \/ \E p \in Pods : \E i \in 1..Len(timers[p]) : StopAck(p, i)
    \/ \E p \in Pods : \E i \in 1..Len(timers[p]) : StopTimeout(p, i)
    \/ \E c \in OneCall : Free(c) /\ get_pod_provision(c, NumpyScipy, FALSE)
    \/ \E c \in OneCall : build_image(c, TRUE)
    \/ \E c \in OneCall, a \in Accounts, t \in TimeoutChoices(Timeouts), cb \in BOOLEAN :
          start_container(c, a, t, cb)
    \/ \E c \in OneCall, bind \in BOOLEAN : get_pod_return(c, bind, FALSE)

\* The event loop runs every task that is ready, and time passes.
IdleFairness ==
    /\ WF_vars(Tick)
    /\ \A p \in Pods : WF_vars(\E i \in 1..Len(timers[p]) : TimerWake(p, i))
    /\ \A p \in Pods : WF_vars(\E i \in 1..Len(timers[p]) : CpuResult(p, i, 0))

SpecIdle == Init /\ [][NextIdle]_vars /\ IdleFairness

\* Two callers at once, of two accounts: get_pod and provision interleave
\* with each other, with manager stop, handle teardown, the autostop timer and
\* reconciliation.  Stop callbacks and bind_data are left out, and the stop
\* calls come for pods that are leased.
NextPool ==
    \/ Tick
    \/ \E p \in Pods : ContainerDie(p)
    \/ \E a \in Accounts, p \in Pods : StopFound(a, p) /\ ManagerStopCall(a, p, FALSE)
    \/ \E p \in Pods : ~StopRaises(p) /\ PodStopCall(p)
    \/ \E p \in Pods : KeepAlive(p)
    \/ \E p \in Pods : \E i \in 1..Len(timers[p]) : TimerWake(p, i)
    \/ \E p \in Pods, cpu \in CpuReadings : \E i \in 1..Len(timers[p]) :
          CpuResult(p, i, cpu)
    \/ \E p \in Pods : \E i \in 1..Len(timers[p]) : CpuFail(p, i)
    \/ \E p \in Pods : \E i \in 1..Len(timers[p]) : StopAck(p, i)
    \/ \E p \in Pods : \E i \in 1..Len(timers[p]) : StopTimeout(p, i)
    \/ \E c \in Calls, a \in Accounts, t \in TimeoutChoices({None, 1}) :
          Free(c) /\ get_pod_ready(c, a, NumpyScipy, t, FALSE)
    \/ \E c \in Calls : Free(c) /\ get_pod_provision(c, NumpyScipy, FALSE)
    \/ \E c \in Calls, n \in 1..MaxPods : Free(c) /\ provision(c, NumpyScipy, n, FALSE)
    \/ \E c \in Calls : build_image(c, TRUE)
    \/ \E c \in Calls, a \in Accounts, t \in TimeoutChoices({None, 1}) :
          start_container(c, a, t, FALSE)
    \/ \E c \in Calls : get_pod_return(c, FALSE, FALSE)
    \/ \E ok \in BOOLEAN : check_running(ok)

SpecPool == Init /\ [][NextPool]_vars

\* The pool and its keys: callers of one account ask for every fingerprint,
\* builds may fail, images may be rebuilt, and get_pod may ask for one more pod
\* to be provisioned after it returns.  No pod has an autostop timeout.
NextProvision ==
    \/ Tick
    \/ \E p \in Pods : StopFound("a1", p) /\ ManagerStopCall("a1", p, TRUE)
    \/ \E c \in Calls, fp \in Fingerprints :
          Free(c) /\ get_pod_ready(c, "a1", fp, None, TRUE)
    \/ \E c \in Calls, fp \in Fingerprints, up \in BOOLEAN :
          Free(c) /\ get_pod_provision(c, fp, up)
    \/ \E c \in Calls, fp \in Fingerprints, n \in 1..MaxPods, up \in BOOLEAN :
          Free(c) /\ provision(c, fp, n, up)
    \/ \E c \in Calls, ok \in BOOLEAN : build_image(c, ok)
    \/ \E c \in Calls : start_container(c, "a1", None, TRUE)
    \/ \E c \in Calls, prov \in BOOLEAN : get_pod_return(c, FALSE, prov)
    \/ \E k \in 1..Len(delayed) : delayed_provisioning(k)

SpecProvision == Init /\ [][NextProvision]_vars

\* ------------------------------------------------------------ properties
\* C1: under any interleaving of get_pod, provision, manager stop, handle
\* teardown, autostop timers and reconciliation, no pod handle is at once in a
\* ready queue and in an account's lease set, and none is in the lease sets
\* of two accounts.
OneHolder ==
    \A p \in Pods :
        /\ ~(p \in ReadyPods /\ Leased(p))
        /\ Cardinality({a \in Accounts : StopFound(a, p)}) <= 1

\* Two get_pod calls of two accounts are both suspended in update_params,
\* each with its pod leased.
TwoLeasesInFlight ==
    /\ \A c \in Calls : calls[c].pc = "update"
    /\ \E p, q \in Pods : StopFound("a1", p) /\ StopFound("a2", q)

\* C2: a get_pod call on an empty ready queue provisions a count of 1, and at
\* the moment get_pod returns, the pod handle is in the requesting account's
\* lease set and in no ready queue, whatever ran while it was suspended.
ReturnedHandleIsLeased ==
    [][\A c \in Calls :
          /\ (calls'[c].kind = "get_pod" /\ calls'[c].pc \in {"build", "start"})
                => calls'[c].number = 1
          /\ (calls[c].pc = "update" /\ calls'[c].pc = "idle")
                => LET p == calls[c].pod
                   IN /\ p \in Elems(running'[stop_callback[p].account])
                      /\ \A t \in Tags : p \notin Elems(ready'[t])]_vars

\* A call of reset_timeout on pod p: the pod's keep-alive, or get_pod's own.
ResetStep(p) ==
    \/ KeepAlive(p)
    \/ \E c \in Calls, b \in BOOLEAN : calls[c].pod = p /\ get_pod_return(c, b, FALSE)

\* C3: a pod handle has at most one unfinished autostop task; a reset_timeout
\* call made while one is outstanding spawns none and only sets the deadline
\* to now + timeout.
SingleFlight ==
    [][\A p \in Pods :
          /\ Len(timers'[p]) <= 1
          /\ (Len(timers[p]) = 1 /\ autostop_timeout[p] # None /\ ResetStep(p))
                => /\ timers'[p] = timers[p]
                   /\ autostop_time'[p] = [set |-> TRUE, left |-> autostop_timeout[p]]]_vars

\* The deadline was reset while the one task was in its CPU query.
ResetDuringCheck ==
    \E p \in Pods :
        /\ Len(timers[p]) = 1
        /\ timers[p][1].st = "checking"
        /\ autostop_time[p].left = autostop_timeout[p]

\* C4: autoscale-down never invokes teardown earlier than timeout seconds
\* after the most recent reset_timeout call, wherever that call falls.
NoEarlyTeardown ==
    [][\A p \in Pods :
          (\E i \in 1..Len(timers[p]) : CpuResult(p, i, 0))
             => autostop_time[p].left <= 0]_vars

\* C5: after a wake with the deadline passed, a CPU reading of 1% or more
\* leaves the handle leased and arms a new timer of max(2, timeout) seconds; a
\* reading below 1% invokes teardown with stop_pod = true; every re-arm is of 2
\* seconds or more.
ExtensionRule ==
    [][\A p \in Pods : \A i \in 1..Len(timers[p]) :
          /\ CpuResult(p, i, 1)
                => /\ timers'[p] = <<[st |-> "sleeping",
                                      left |-> IF autostop_timeout[p] > 2
                                               THEN autostop_timeout[p] ELSE 2]>>
                   /\ running' = running
                   /\ remoteStops' = remoteStops
                   /\ cbRuns' = cbRuns
          /\ CpuResult(p, i, 0)
                => \/ remoteStops'[p] = remoteStops[p] + 1
                   \/ raised' = "KeyError:autostop"
          /\ ((TimerWake(p, i) \/ \E cpu \in CpuReadings : CpuResult(p, i, cpu))
                /\ timers'[p] # <<>> /\ timers'[p][1].st = "sleeping")
                => timers'[p][1].left >= 2]_vars

\* A timeout of 1 second, extended by 2: the deadline has passed, the pod is
\* leased, and its new timer has its 2 seconds left.
ExtendedByTwo ==
    \E p \in Pods :
        /\ autostop_timeout[p] = 1
        /\ Leased(p)
        /\ autostop_time[p].left < 0
        /\ timers[p] = <<[st |-> "sleeping", left |-> 2]>>

\* C6: a pod leased with a timeout, never kept alive and idle at the CPU
\* query, is in the end sent the remote stop and removed from its account's
\* lease set, and the remote stop is not sent before the timeout has elapsed.
IdleStops ==
    /\ \A p \in Pods :
          (Leased(p) /\ autostop_timeout[p] # None /\ timers[p] # <<>>)
             ~> (remoteStops[p] >= 1 /\ ~Leased(p))
    /\ [][\A p \in Pods :
             remoteStops'[p] > remoteStops[p] => autostop_time[p].left < 0]_vars

\* The pod with a timeout has been sent the remote stop and is leased no more.
StoppedWhenIdle ==
    \E p \in Pods :
        /\ autostop_timeout[p] # None
        /\ remoteStops[p] = 1
        /\ ~Leased(p)
        /\ timers[p] = <<>>

\* C7: two invocations of a leased handle's teardown run the stop callback
\* and the file-sync cancellation at most once each, and the second
\* invocation raises nothing.
SecondTeardownNoOp ==
    /\ \A p \in Pods : cbRuns[p] <= 1 /\ fsCancels[p] <= 1
    /\ raised \notin {"KeyError:PodWrapper.stop", "KeyError:autostop"}

\* C8: a reconciliation tick removes from the Lease Table every leased handle
\* whose container is not listed, runs its stop callback and its file-sync
\* cancellation once, and sends it no remote stop.
TickRemovesEveryGone ==
    [][check_running(TRUE)
          => \A p \in Pods :
                (Leased(p) /\ Gone(alive, p))
                   => /\ \A a \in Accounts : p \notin Elems(running'[a])
                      /\ cbRuns'[p] = cbRuns[p]
                                        + (IF stop_callback[p].callback THEN 1 ELSE 0)
                      /\ fsCancels'[p] = fsCancels[p]
                                        + (IF CancelsFilesync(p) THEN 1 ELSE 0)
                      /\ remoteStops'[p] = remoteStops[p]]_vars

\* C9: the reconciliation loop never terminates, whatever a tick did.
LoopNeverEnds == loop # "dead"

\* C10: a manager stop call for an account/pod pair that is not in the Lease
\* Table raises nothing, changes neither the Lease Table nor the ready queues,
\* and schedules no callback.
StopOfAbsentIsNoOp ==
    [][\A a \in Accounts, p \in Pods :
          (~StopFound(a, p) /\ ManagerStopCall(a, p, TRUE))
             => /\ raised' = "none"
                /\ running' = running
                /\ ready' = ready
                /\ cbRuns' = cbRuns]_vars

\* C11: a provision call whose image build fails terminates there and
\* reports the failure: it goes on to no container start, appends no handle
\* and leases none.
FailedBuildEndsCall ==
    [][\A c \in Calls :
          (calls[c].pc = "build" /\ calls'[c].pc # "build"
              /\ calls[c].tag \notin image')
             => /\ calls'[c].pc = "idle"
                /\ raised' # "none"
                /\ ready' = ready
                /\ running' = running]_vars

\* C14: get_pod with provision set returns without waiting for the extra
\* pod, and the delayed task, once its sleep is over, runs a provision of one
\* more pod.
ExtraProvisionStarts ==
    [][/\ Len(delayed') > Len(delayed)
            => \E c \in Calls : calls[c].pc = "update" /\ calls'[c].pc = "idle"
       /\ \A k \in 1..Len(delayed) :
             (delayed[k].st = "sleeping" /\ delayed'[k].st # "sleeping")
                => /\ raised' = "none"
                   /\ \E c \in Calls : /\ calls'[c].kind = "provision"
                                       /\ calls'[c].number = 1
                                       /\ calls'[c].pc \in {"build", "start"}]_vars

\* C15: a task that has finished, with success or failure, is no more in its
\* pending set.
FinishedTasksLeaveSets ==
    \A k \in 1..Len(delayed) : delayed[k].st = "sleeping"

\* The same base and the same set of dependencies.
SameDeps(f, g) == f.base = g.base /\ Elems(f.deps) = Elems(g.deps)

\* C19: the pool key does not depend on the order of the dependencies: a
\* get_pod call provisions only when no pod is ready under any ordering of its
\* dependencies.
OrderFreeKey ==
    [][\A c \in Calls, f, g \in Fingerprints :
          ((\E up \in BOOLEAN : get_pod_provision(c, f, up)) /\ SameDeps(f, g))
             => ready[Tag(g)] = <<>>]_vars

\* An invocation of PodWrapper.stop on pod p: by the pod's own call, by its
\* autostop task, or by a reconciliation tick.
TeardownInvoked(p) ==
    \/ PodStopCall(p)
    \/ \E i \in 1..Len(timers[p]) : CpuResult(p, i, 0)
    \/ \E ok \in BOOLEAN :
          check_running(ok) /\ FirstGone(IF ok THEN alive ELSE {}) = p

\* C12: every invocation of a handle's teardown, by whichever path and also
\* when the stop callback raises, leaves the handle's file-sync task cancelled
\* and the handle out of the Lease Table.
TeardownCancelsSync ==
    [][\A p \in Pods :
          TeardownInvoked(p)
             => /\ filesync'[p] # "running"
                /\ \A a \in Accounts : p \notin Elems(running'[a])]_vars

\* The handle was leased and its lease is gone.
TornDown(p) == stop_callback[p].set /\ ~Leased(p)

\* No get_pod call is still on its way to returning pod p.
Returned(p) == \A c \in Calls : ~(calls[c].pc = "update" /\ calls[c].pod = p)

\* C13: once a handle is torn down no autostop task of it starts a CPU query
\* or invokes teardown again, and the handle comes back to no ready queue and
\* no lease set.
TimerEndsWithTeardown ==
    [][\A p \in Pods :
          (TornDown(p) /\ Returned(p))
             => /\ (\E i \in 1..Len(timers'[p]) : timers'[p][i].st = "checking")
                      => (\E i \in 1..Len(timers[p]) : timers[p][i].st = "checking")
                /\ \A i \in 1..Len(timers[p]) : ~CpuResult(p, i, 0)
                /\ \A a \in Accounts : p \notin Elems(running'[a])
                /\ \A t \in Tags : p \notin Elems(ready'[t])]_vars

\* C16: a failed CPU query is contained: a leased handle with a timeout,
\* whose timer has been armed, always has an autostop task outstanding.
TimedLeaseHasTimer ==
    \A p \in Pods :
        (Leased(p) /\ Returned(p) /\ autostop_timeout[p] # None /\ autostop_task[p])
           => timers[p] # <<>>

\* C17: teardown with stop_pod = true removes the lease, runs the callback
\* and cancels the file-sync, then sends the remote stop; when no answer comes
\* within 5 seconds it ends raising nothing.  Teardown with stop_pod = false
\* sends no remote stop.
BestEffortStop ==
    [][\A p \in Pods :
          /\ \A i \in 1..Len(timers[p]) :
                (CpuResult(p, i, 0) /\ ~StopRaises(p))
                   => /\ \A a \in Accounts : p \notin Elems(running'[a])
                      /\ cbRuns'[p] = cbRuns[p]
                                        + (IF stop_callback[p].callback THEN 1 ELSE 0)
                      /\ filesync'[p] # "running"
                      /\ remoteStops'[p] = remoteStops[p] + 1
                      /\ timers'[p][i] = [st |-> "stopping", left |-> 5]
          /\ \A i \in 1..Len(timers[p]) :
                StopTimeout(p, i)
                   => /\ raised' = "none"
                      /\ ~Leased(p)
                      /\ timers'[p] = <<>>
                      /\ UNCHANGED <<running, cbRuns, fsCancels, remoteStops>>
          /\ (PodStopCall(p)
                \/ \E ok \in BOOLEAN :
                      check_running(ok) /\ FirstGone(IF ok THEN alive ELSE {}) = p)
                => remoteStops' = remoteStops]_vars

\* The remote stop was sent and never answered: the task is over, the
\* container still runs, the lease is gone.
StopTimedOut ==
    \E p \in Pods :
        /\ p \in alive
        /\ remoteStops[p] = 1
        /\ timers[p] = <<>>
        /\ TornDown(p)

\* C18: a live container's handle is in a ready queue or in a lease set.
LiveIsTracked ==
    \A p \in alive : p \in ReadyPods \/ Leased(p)

\* C20: of get_pod calls running at once, each is leased a pod no call was
\* leased before, none pops an empty list, and a call that waited for its
\* provision is leased the pod started for it.
OwnPodPerCaller ==
    [][\A c \in Calls :
          (calls[c].pc # "update" /\ calls'[c].pc = "update")
             => LET p == calls'[c].pod
                IN /\ p \in Pods
                   /\ ~stop_callback[p].set
                   /\ \A d \in Calls \ {c} :
                         calls[d].pc = "update" => calls[d].pod # p
                   /\ calls[c].pc = "idle" => p \in Elems(ready[calls'[c].tag])
                   /\ calls[c].pc = "start" => p = nextPod + 1]_vars

\* One get_pod call waits for its container while another holds its pod.
CallerWaitsBesideLease ==
    \E c, d \in Calls :
        /\ calls[c].kind = "get_pod" /\ calls[c].pc = "start"
        /\ calls[d].pc = "update"
        /\ Leased(calls[d].pod)
====
